---------------------------- MODULE Spec2Model ----------------------------
(***************************************************************************)
(* Model of udk/udkParser.py: parseActors (the batch splitter), parseActor *)
(* (the single-actor parser), _getFloatTuple and _convertRotationFromUDK.  *)
(*                                                                         *)
(* Text is a sequence of one-character strings.  Indices held in variables *)
(* are the 0-based Python indices of the source; TLA+ sequences are        *)
(* 1-based, so Python's s[i] is s[i + 1] here.                             *)
(***************************************************************************)
EXTENDS Integers, Sequences, FiniteSets, TLC

VARIABLES unrtext, safe, sindex, objList, actorText, origins,
          lines, cursor, objInfo, textblock, result, pc

vars == <<unrtext, safe, sindex, objList, actorText, origins,
          lines, cursor, objInfo, textblock, result, pc>>

(***************************************************************************)
(* Bounds of the model.                                                    *)
(***************************************************************************)
MaxBody == 3

MaxBlocks == 3

MaxIter == 3

(***************************************************************************)
(* Python string primitives.                                               *)
(***************************************************************************)
\* \s of the re module, str.strip(): space, \t, \n, \r, \f (and \v, which
\* has no TLA+ escape and is not in the modelled alphabet).
IsSpace(c) == c \in {" ", "\t", "\n", "\r", "\f"}

Min(a, b) == IF a < b THEN a ELSE b

Max(a, b) == IF a > b THEN a ELSE b

\* s[a:b] for a >= 0; a negative b counts from the end, as in Python.
PySlice(s, a, b) ==
    LET n  == Len(s)
        bb == IF b < 0 THEN Max(b + n, 0) ELSE Min(b, n)
    IN  IF a >= bb THEN <<>> ELSE SubSeq(s, a + 1, bb)

\* sub occurs in s at 0-based offset i
OccursAt(s, sub, i) ==
    /\ i >= 0
    /\ i + Len(sub) =< Len(s)
    /\ \A k \in 1..Len(sub) : s[i + k] = sub[k]

\* str.find(sub, start): lowest offset >= start of an occurrence, else -1
find(s, sub, start) ==
    LET hits == {i \in start..(Len(s) - Len(sub)) : OccursAt(s, sub, i)}
    IN  IF hits = {} THEN -1 ELSE CHOOSE i \in hits : \A j \in hits : i =< j

\* str.startswith(prefix)
startswith(s, prefix) == OccursAt(s, prefix, 0)

(***************************************************************************)
(* The re module, for the pattern elements the source uses: a literal, a   *)
(* lazy .+? (captured or not) and a greedy \s+.  MatchFrom is the          *)
(* backtracking matcher: it returns [ok, groups] for pattern elements      *)
(* k.. of pat against text from offset i.                                  *)
(***************************************************************************)
Lit(s) == [t |-> "lit", s |-> s, cap |-> FALSE]

Lazy(cap) == [t |-> "lazy", s |-> <<>>, cap |-> cap]

Spaces == [t |-> "ws", s |-> <<>>, cap |-> FALSE]

NoMatch == [ok |-> FALSE, groups |-> <<>>]

RECURSIVE MatchFrom(_, _, _, _, _)
RECURSIVE LazyTry(_, _, _, _, _, _)
RECURSIVE LazyElse(_, _, _, _, _, _, _)
RECURSIVE GreedyTry(_, _, _, _, _, _)
RECURSIVE GreedyElse(_, _, _, _, _, _, _)

\* r when it is a match, else the next, longer try of the lazy group
LazyElse(r, pat, k, text, i, caps, n) ==
    IF r.ok THEN r ELSE LazyTry(pat, k, text, i, caps, n + 1)

\* .+? : the shortest run of n >= 1 non-newline characters that lets the
\* rest of the pattern match
LazyTry(pat, k, text, i, caps, n) ==
    IF i + n > Len(text) \/ text[i + n] = "\n" THEN NoMatch
    ELSE LazyElse(MatchFrom(pat, k + 1, text, i + n,
                            IF pat[k].cap
                            THEN Append(caps, SubSeq(text, i + 1, i + n))
                            ELSE caps),
                  pat, k, text, i, caps, n)

\* r when it is a match, else the next, shorter try of the greedy run
GreedyElse(r, pat, k, text, i, caps, n) ==
    IF r.ok THEN r ELSE GreedyTry(pat, k, text, i, caps, n - 1)

\* \s+ : the longest run of n >= 1 whitespace characters that lets the rest
\* of the pattern match
GreedyTry(pat, k, text, i, caps, n) ==
    IF n < 1 THEN NoMatch
    ELSE GreedyElse(MatchFrom(pat, k + 1, text, i + n, caps),
                    pat, k, text, i, caps, n)

RECURSIVE SpaceRun(_, _)
\* number of consecutive whitespace characters of text from offset i
SpaceRun(text, i) ==
    IF i < Len(text) /\ IsSpace(text[i + 1]) THEN 1 + SpaceRun(text, i + 1)
    ELSE 0

MatchFrom(pat, k, text, i, caps) ==
    IF k > Len(pat) THEN [ok |-> TRUE, groups |-> caps]
    ELSE CASE pat[k].t = "lit" ->
                IF OccursAt(text, pat[k].s, i)
                THEN MatchFrom(pat, k + 1, text, i + Len(pat[k].s), caps)
                ELSE NoMatch
           [] pat[k].t = "lazy" -> LazyTry(pat, k, text, i, caps, 1)
           [] pat[k].t = "ws" ->
                GreedyTry(pat, k, text, i, caps, SpaceRun(text, i))

\* re.search(pat, text): the match at the leftmost offset that has one
re_search(pat, text) ==
    LET starts == {i \in 0..Len(text) : MatchFrom(pat, 1, text, i, <<>>).ok}
    IN  IF starts = {} THEN NoMatch
        ELSE MatchFrom(pat, 1, text,
                       CHOOSE i \in starts : \A j \in starts : i =< j, <<>>)

\* the piece of text from offset i up to the newline at offset nl, and the
\* pieces after the separator that starts there
RECURSIVE SplitFrom(_, _)
SplitAt(text, i, nl) ==
    IF nl = -1 THEN <<PySlice(text, i, Len(text))>>
    ELSE <<PySlice(text, i, nl)>> \o SplitFrom(text, nl + SpaceRun(text, nl))

\* re.split("\n+\s*", text): a separator starts at a newline and swallows
\* the whole whitespace run that follows it (\s includes the newline).
SplitFrom(text, i) == SplitAt(text, i, find(text, <<"\n">>, i))

re_split(text) == SplitFrom(text, 0)

(***************************************************************************)
(* float(): surrounding whitespace is stripped, then an optional sign and  *)
(* decimal digits.  The modelled alphabet has no ".", "e" or "_", so every *)
(* other token is a ValueError.                                            *)
(***************************************************************************)
Digits == <<"0", "1", "2", "3", "4", "5", "6", "7", "8", "9">>

DigitVal(c) == (CHOOSE d \in 1..10 : Digits[d] = c) - 1

IsDigit(c) == \E d \in 1..10 : Digits[d] = c

RECURSIVE LStrip(_)
LStrip(s) == IF s # <<>> /\ IsSpace(s[1]) THEN LStrip(Tail(s)) ELSE s

RECURSIVE RStrip(_)
RStrip(s) ==
    IF s # <<>> /\ IsSpace(s[Len(s)]) THEN RStrip(SubSeq(s, 1, Len(s) - 1))
    ELSE s

RECURSIVE DecVal(_, _)
DecVal(s, acc) ==
    IF s = <<>> THEN acc ELSE DecVal(Tail(s), acc * 10 + DigitVal(s[1]))

\* [ok, val]: ok = FALSE stands for ValueError
float(s) ==
    LET t    == RStrip(LStrip(s))
        sgn  == t # <<>> /\ t[1] \in {"-", "+"}
        body == IF sgn THEN Tail(t) ELSE t
    IN  IF body # <<>> /\ \A k \in 1..Len(body) : IsDigit(body[k])
        THEN [ok |-> TRUE,
              val |-> IF sgn /\ t[1] = "-" THEN 0 - DecVal(body, 0)
                      ELSE DecVal(body, 0)]
        ELSE [ok |-> FALSE, val |-> 0]

(***************************************************************************)
(* Literals of the source.                                                 *)
(***************************************************************************)
BeginActor == <<"B", "e", "g", "i", "n", " ", "A", "c", "t", "o", "r">>

EndActor == <<"E", "n", "d", " ", "A", "c", "t", "o", "r">>

LocationKey == <<"L", "o", "c", "a", "t", "i", "o", "n", "=">>

RotationKey == <<"R", "o", "t", "a", "t", "i", "o", "n", "=">>

DrawScale3DKey == <<"D", "r", "a", "w", "S", "c", "a", "l", "e", "3", "D", "=">>

\* "Class=(.+?) Name=(.+?)\s+"
headerMatch ==
    <<Lit(<<"C", "l", "a", "s", "s", "=">>), Lazy(TRUE), Lit(<<" ", "N", "a", "m", "e", "=">>), Lazy(TRUE), Spaces>>

\* "=\(.+?=(.+?),.+?=(.+?),.+?=(.+?)\)"
float3Match ==
    <<Lit(<<"=", "(">>), Lazy(FALSE), Lit(<<"=">>), Lazy(TRUE), Lit(<<",">>),
      Lazy(FALSE), Lit(<<"=">>), Lazy(TRUE), Lit(<<",">>),
      Lazy(FALSE), Lit(<<"=">>), Lazy(TRUE), Lit(<<")">>)>>

(***************************************************************************)
(* Collaborators that live outside udkParser.py.                           *)
(***************************************************************************)
\* the value parseActor returns when the header does not match
None == [kind |-> "None"]

\* what is left of a call that an exception escaped: g.group on a None
\* match object in _getFloatTuple
AttributeError == [kind |-> "AttributeError"]

\* m2u.udk.udkTypes.getCommonTypeFromInternal: a pure, total lookup
getCommonTypeFromInternal(objtype) == "common"

\* m2u.helper.ObjectInfo.ObjectInfo: zero position and rotation, identity
\* scale, no attrs
ObjectInfo(name, typeInternal, typeCommon) ==
    [kind          |-> "ObjectInfo",
     name          |-> name,
     type_internal |-> typeInternal,
     type_common   |-> typeCommon,
     position      |-> <<0, 0, 0>>,
     rotation      |-> <<0, 0, 0>>,
     scale         |-> <<1, 1, 1>>,
     attrs         |-> [k \in {} |-> <<>>]]

(***************************************************************************)
(* _getFloatTuple and _convertRotationFromUDK.                             *)
(***************************************************************************)
\* lines 152-157: float() of one group, 0.0 on ValueError
FloatOrZero(f) == IF f.ok THEN f.val ELSE 0

\* lines 152-159 for the match object g.  [raised, val]: when g is None,
\* g.group raises AttributeError, which except ValueError does not catch.
FloatTupleOf(g) ==
    IF ~g.ok THEN [raised |-> TRUE, val |-> <<0, 0, 0>>]
    ELSE [raised |-> FALSE,
          val |-> <<FloatOrZero(float(g.groups[1])),
                    FloatOrZero(float(g.groups[2])),
                    FloatOrZero(float(g.groups[3]))>>]

_getFloatTuple(text) == FloatTupleOf(re_search(float3Match, text))

\* 0.0054931640625 is 360/65536: a rotation is held as the numerator of a
\* fraction of RotDen degrees, so that the product stays an integer.
RotDen == 65536

_convertRotationFromUDK(rotTuple) ==
    <<rotTuple[1] * 360, rotTuple[2] * 360, rotTuple[3] * 360>>

(***************************************************************************)
(* parseActor, step by step.                                               *)
(***************************************************************************)
\* lines 109-117: the index of the working start line
FindStart(ls, sf) ==
    LET hits == {i \in 0..(Len(ls) - 1) : startswith(ls[i + 1], BeginActor)}
    IN  IF sf \/ hits = {} THEN 0
        ELSE CHOOSE i \in hits : \A j \in hits : i =< j

\* lines 122-125 for the match object g
HeaderRecord(g) ==
    ObjectInfo(g.groups[2], g.groups[1],
               getCommonTypeFromInternal(g.groups[1]))

\* a plausible slip: a record is built although the header did not match
HeaderResult_Partial(g) ==
    IF ~g.ok THEN ObjectInfo(<<>>, <<>>, getCommonTypeFromInternal(<<>>))
    ELSE HeaderRecord(g)

\* lines 119-125 for the match object g: None, or the fresh ObjectInfo
HeaderResult(g) == IF ~g.ok THEN None ELSE HeaderRecord(g)

\* lines 118-125
ParseHeader(line) == HeaderResult(re_search(headerMatch, line))

\* the outcome of one turn of the for loop: ctl is "break", "next", or
\* "raise" when _getFloatTuple's AttributeError escapes
Outcome(ctl, info, tb) == [ctl |-> ctl, objInfo |-> info, textblock |-> tb]

\* lines 136, 139, 141: the assignment of the triple t to the attribute
\* the line names
Assign(info, tb, line, t) ==
    IF t.raised THEN Outcome("raise", info, tb)
    ELSE IF startswith(line, LocationKey)
    THEN Outcome("next", [info EXCEPT !.position = t.val], tb)
    ELSE IF startswith(line, RotationKey)
    THEN Outcome("next",
                 [info EXCEPT !.rotation = _convertRotationFromUDK(t.val)],
                 tb)
    ELSE Outcome("next", [info EXCEPT !.scale = t.val], tb)

\* lines 135, 137, 140
IsTripletLine(line) ==
    \/ startswith(line, LocationKey)
    \/ startswith(line, RotationKey)
    \/ startswith(line, DrawScale3DKey)

\* a plausible slip: the End Actor test ignores the safe flag
WalkLine_AlwaysBreak(info, tb, line, sf) ==
    IF startswith(line, EndActor) THEN Outcome("break", info, tb)
    ELSE IF IsTripletLine(line)
    THEN Assign(info, tb, line, _getFloatTuple(line))
    ELSE Outcome("next", info, tb \o <<"\n">> \o line)

\* a plausible slip: a recognised triplet line is copied to the payload too
WalkLine_CopiesTriplet(info, tb, line, sf) ==
    IF ~sf /\ startswith(line, EndActor) THEN Outcome("break", info, tb)
    ELSE IF IsTripletLine(line)
    THEN Assign(info, tb \o <<"\n">> \o line, line, _getFloatTuple(line))
    ELSE Outcome("next", info, tb \o <<"\n">> \o line)

\* lines 127-143: the body of the for loop on one line
WalkLine(info, tb, line, sf) ==
    IF ~sf /\ startswith(line, EndActor) THEN Outcome("break", info, tb)
    ELSE IF IsTripletLine(line)
    THEN Assign(info, tb, line, _getFloatTuple(line))
    ELSE Outcome("next", info, tb \o <<"\n">> \o line)

\* line 144: objInfo.attrs["textblock"] = textblock
StoreTextblock(info, tb) ==
    [info EXCEPT !.attrs = ("textblock" :> tb) @@ info.attrs]

RECURSIVE Walk(_, _, _, _, _)
\* what the loop does after the outcome w of line i
WalkOn(w, ls, i, info, tb, sf) ==
    CASE w.ctl = "break" -> StoreTextblock(info, tb)
      [] w.ctl = "raise" -> AttributeError
      [] w.ctl = "next"  -> Walk(ls, i + 1, w.objInfo, w.textblock, sf)

\* lines 126-145 as one function: the ObjectInfo, or AttributeError
Walk(ls, i, info, tb, sf) ==
    IF i >= Len(ls) THEN StoreTextblock(info, tb)
    ELSE WalkOn(WalkLine(info, tb, ls[i + 1], sf), ls, i, info, tb, sf)

\* lines 118-145 on the split lines, from the start line s
ParseFrom(ls, s, info, sf) ==
    IF info = None THEN None ELSE Walk(ls, s + 1, info, <<>>, sf)

\* lines 109-145 on the split lines
ParseLines(ls, s, sf) == ParseFrom(ls, s, ParseHeader(ls[s + 1]), sf)

\* parseActor as parseActors calls it: the returned ObjectInfo, None, or
\* AttributeError when the exception escapes
parseActor(text, sf) ==
    ParseLines(re_split(text), FindStart(re_split(text), sf), sf)

(***************************************************************************)
(* Input buffers.                                                          *)
(***************************************************************************)
RECURSIVE Concat(_)
Concat(ss) == IF ss = <<>> THEN <<>> ELSE Head(ss) \o Concat(Tail(ss))

SeqsUpTo(S, n) == UNION {[1..k -> S] : k \in 0..n}

\* text in front of the header line
Prefixes == {<<>>, <<"B", "e", "g", "i", "n", " ", "M", "a", "p", "\n", " ", " ">>}

Headers ==
    {<<"B", "e", "g", "i", "n", " ", "A", "c", "t", "o", "r", " ", "C", "l", "a", "s", "s", "=", "F", "o", "o", " ", "N", "a", "m", "e", "=", "B", "a", "r", " ", "A", "=", "1">>,
     <<"B", "e", "g", "i", "n", " ", "A", "c", "t", "o", "r", " ", "C", "l", "a", "s", "s", "=", "F", "o", "o", " ", "N", "a", "m", "e", "=", "B", "a", "r">>,
     <<"B", "e", "g", "i", "n", " ", "A", "c", "t", "o", "r", " ", "C", "l", "a", "s", "s", "=", "F", "o", "o", " ", "A", "=", "1", " ", "N", "a", "m", "e", "=", "B", "a", "r", " ">>,
     <<"B", "e", "g", "i", "n", " ", "A", "c", "t", "o", "r", " ", "N", "a", "m", "e", "=", "B", "a", "r">>}

BodyFrags ==
    {<<"\n", " ", " ", "x", "=", "1">>,
     <<"\n", "E", "n", "d", " ", "A", "c", "t", "o", "r">>,
     <<"\n", "L", "o", "c", "a", "t", "i", "o", "n", "=", "(", "X", "=", "1", ",", "Y", "=", "2", ",", "Z", "=", "3", ")">>,
     <<"\n", "R", "o", "t", "a", "t", "i", "o", "n", "=", "(", "P", "=", "8", ",", "Y", "=", "z", ",", "R", "=", "-", "4", ")">>,
     <<"\n", "D", "r", "a", "w", "S", "c", "a", "l", "e", "3", "D", "=", "(", "X", "=", "2", ",", "Y", "=", "2", ",", "Z", "=", "2", ")">>,
     <<"\n", "L", "o", "c", "a", "t", "i", "o", "n", "=", "5">>,
     <<"\n">>}

ActorInputs ==
    {p \o h \o Concat(b) :
        p \in Prefixes, h \in Headers, b \in SeqsUpTo(BodyFrags, MaxBody)}

BlockFrags ==
    {<<"B", "e", "g", "i", "n", " ", "A", "c", "t", "o", "r", " ", "C", "l", "a", "s", "s", "=", "A", " ", "N", "a", "m", "e", "=", "B", " ", "\n", "x", "\n", "E", "n", "d", " ", "A", "c", "t", "o", "r", "\n">>,
     <<"B", "e", "g", "i", "n", " ", "A", "c", "t", "o", "r", " ", "C", "l", "a", "s", "s", "=", "C", " ", "N", "a", "m", "e", "=", "D", " ", "\n", "y">>,
     <<"B", "e", "g", "i", "n", " ", "A", "c", "t", "o", "r", "\n", "E", "n", "d", " ", "A", "c", "t", "o", "r", "\n">>,
     <<"B", "e", "g", "i", "n", " ", "A", "c", "t", "o", "r", " ", "C", "l", "a", "s", "s", "=", "E", " ", "N", "a", "m", "e", "=", "F", " ", "\n", "L", "o", "c", "a", "t", "i", "o", "n", "=", "5", "\n", "E", "n", "d", " ", "A", "c", "t", "o", "r", "\n">>,
     <<"B", "e", "g", "i", "n", " ", "M", "a", "p", "\n">>}

BatchInputs == {Concat(b) : b \in SeqsUpTo(BlockFrags, MaxBlocks)}

(***************************************************************************)
(* parseActor(unrtext, safe) as a process.                                 *)
(***************************************************************************)
InitActor ==
    /\ unrtext \in ActorInputs
    /\ safe \in BOOLEAN
    /\ sindex = 0
    /\ objList = <<>>
    /\ actorText = <<>>
    /\ origins = <<>>
    /\ lines = <<>>
    /\ cursor = 0
    /\ objInfo = None
    /\ textblock = <<>>
    /\ result = None
    /\ pc = "call"

\* lines 109-117
SplitLines ==
    /\ pc = "call"
    /\ lines' = re_split(unrtext)
    /\ sindex' = FindStart(lines', safe)
    /\ pc' = "header"
    /\ UNCHANGED <<unrtext, safe, objList, actorText, origins, cursor,
                   objInfo, textblock, result>>

\* lines 118-121: no match, return None
HeaderMismatch ==
    /\ pc = "header"
    /\ ParseHeader(lines[sindex + 1]) = None
    /\ result' = None
    /\ pc' = "returned"
    /\ UNCHANGED <<unrtext, safe, sindex, objList, actorText, origins,
                   lines, cursor, objInfo, textblock>>

\* lines 118-126: the ObjectInfo is built from the two groups
HeaderMatch ==
    /\ pc = "header"
    /\ \E info \in {ParseHeader(lines[sindex + 1])} :
          /\ info # None
          /\ objInfo' = info
    /\ textblock' = <<>>
    /\ cursor' = sindex + 1
    /\ pc' = "walk"
    /\ UNCHANGED <<unrtext, safe, sindex, objList, actorText, origins,
                   lines, result>>

\* lines 127-143: one line that is consumed
WalkNext ==
    /\ pc = "walk"
    /\ cursor < Len(lines)
    /\ \E w \in {WalkLine(objInfo, textblock, lines[cursor + 1], safe)} :
          /\ w.ctl = "next"
          /\ objInfo' = w.objInfo
          /\ textblock' = w.textblock
    /\ cursor' = cursor + 1
    /\ UNCHANGED <<unrtext, safe, sindex, objList, actorText, origins,
                   lines, result, pc>>

\* lines 133-134, 144-145: break at End Actor, store the payload, return
WalkBreak ==
    /\ pc = "walk"
    /\ cursor < Len(lines)
    /\ WalkLine(objInfo, textblock, lines[cursor + 1], safe).ctl = "break"
    /\ objInfo' = StoreTextblock(objInfo, textblock)
    /\ result' = objInfo'
    /\ pc' = "returned"
    /\ UNCHANGED <<unrtext, safe, sindex, objList, actorText, origins,
                   lines, cursor, textblock>>

\* lines 136, 138, 141 and 155: the AttributeError leaves parseActor
WalkRaise ==
    /\ pc = "walk"
    /\ cursor < Len(lines)
    /\ WalkLine(objInfo, textblock, lines[cursor + 1], safe).ctl = "raise"
    /\ result' = AttributeError
    /\ pc' = "raised"
    /\ UNCHANGED <<unrtext, safe, sindex, objList, actorText, origins,
                   lines, cursor, objInfo, textblock>>

\* lines 144-145: the lines are exhausted, store the payload, return
WalkEnd ==
    /\ pc = "walk"
    /\ cursor >= Len(lines)
    /\ objInfo' = StoreTextblock(objInfo, textblock)
    /\ result' = objInfo'
    /\ pc' = "returned"
    /\ UNCHANGED <<unrtext, safe, sindex, objList, actorText, origins,
                   lines, cursor, textblock>>

NextActor ==
    \/ SplitLines
    \/ HeaderMismatch
    \/ HeaderMatch
    \/ WalkNext
    \/ WalkBreak
    \/ WalkRaise
    \/ WalkEnd

SpecActor == InitActor /\ [][NextActor]_vars

(***************************************************************************)
(* parseActors(unrtext) as a process: one action per turn of the loop.     *)
(* origins records, for each entry of objList, the offset of the Begin     *)
(* Actor occurrence it was built from.  The loop of the source is          *)
(* unbounded; MaxIter caps the length of objList.                          *)
(***************************************************************************)
InitActors ==
    /\ unrtext \in BatchInputs
    /\ safe = TRUE
    /\ sindex = 0
    /\ objList = <<>>
    /\ actorText = <<>>
    /\ origins = <<>>
    /\ lines = <<>>
    /\ cursor = 0
    /\ objInfo = None
    /\ textblock = <<>>
    /\ result = None
    /\ pc = "loop"

\* line 85: unrtext[sindex:eindex]
ActorSlice(text, s, eindex) == PySlice(text, s, eindex)

\* lines 81-83: no further Begin Actor, leave the loop and return objList
LoopBreak ==
    /\ pc = "loop"
    /\ find(unrtext, BeginActor, sindex) = -1
    /\ sindex' = -1
    /\ pc' = "done"
    /\ UNCHANGED <<unrtext, safe, objList, actorText, origins, lines,
                   cursor, objInfo, textblock, result>>

\* lines 81-87: a Begin Actor is found, its slice parsed, the result
\* appended
LoopAppend ==
    /\ pc = "loop"
    /\ Len(objList) < MaxIter
    /\ \E s \in {find(unrtext, BeginActor, sindex)} :
          /\ s # -1
          /\ sindex' = s
          /\ actorText' = ActorSlice(unrtext, s, find(unrtext, EndActor, s))
          /\ origins' = Append(origins, s)
    /\ \E obj \in {parseActor(actorText', TRUE)} :
          /\ obj # AttributeError
          /\ objList' = Append(objList, obj)
    /\ UNCHANGED <<unrtext, safe, lines, cursor, objInfo, textblock,
                   result, pc>>

\* lines 81-86: parseActor raises and the exception leaves parseActors
LoopRaise ==
    /\ pc = "loop"
    /\ \E s \in {find(unrtext, BeginActor, sindex)} :
          /\ s # -1
          /\ sindex' = s
          /\ actorText' = ActorSlice(unrtext, s, find(unrtext, EndActor, s))
    /\ parseActor(actorText', TRUE) = AttributeError
    /\ pc' = "raised"
    /\ UNCHANGED <<unrtext, safe, objList, origins, lines, cursor,
                   objInfo, textblock, result>>

NextActors ==
    \/ LoopBreak
    \/ LoopAppend
    \/ LoopRaise

SpecActors == InitActors /\ [][NextActors]_vars

(***************************************************************************)
(* Vocabulary of the properties.                                           *)
(***************************************************************************)
Foo == <<"F", "o", "o">>

Bar == <<"B", "a", "r">>

\* parseActor has split the text and passed the header test
PastHeader == pc \in {"walk", "returned", "raised"}

\* the working start line of parseActor
HeaderLine == lines[sindex + 1]

\* the record parseActor holds or has returned, None if it has none
Record == IF pc = "returned" THEN result ELSE objInfo

\* parseActor has returned a record
ReturnedRecord == pc = "returned" /\ result # None

\* the header line carries Class=<foo> Name=<bar> as whole tokens
WellFormedHeader(line, foo, bar) ==
    LET h == BeginActor \o <<" ", "C", "l", "a", "s", "s", "=">> \o foo \o <<" ", "N", "a", "m", "e", "=">> \o bar
    IN  /\ startswith(line, h)
        /\ Len(line) = Len(h) \/ IsSpace(line[Len(h) + 1])

\* some Class=, a later " Name=" and, at least one character after it, a
\* whitespace character
HasIdentity(line) ==
    \E i \in 0..Len(line) :
        /\ OccursAt(line, <<"C", "l", "a", "s", "s", "=">>, i)
        /\ \E j \in (i + 7)..Len(line) :
              /\ OccursAt(line, <<" ", "N", "a", "m", "e", "=">>, j)
              /\ \E w \in (j + 8)..Len(line) : IsSpace(line[w])

\* text occurs somewhere in line
OccursIn(line, text) == \E i \in 0..Len(line) : OccursAt(line, text, i)

\* the k-th smallest element of a set of integers
Kth(S, k) == CHOOSE x \in S : Cardinality({y \in S : y < x}) = k - 1

\* the lines of a payload: the text after each of its newlines
PayloadLines(tb) ==
    LET nl == {i \in 1..Len(tb) : tb[i] = "\n"}
        n  == Cardinality(nl)
    IN  [k \in 1..n |->
            SubSeq(tb, Kth(nl, k) + 1,
                   IF k = n THEN Len(tb) ELSE Kth(nl, k + 1) - 1)]

\* a payload is empty or starts with the newline of its first line
PayloadShape(tb) == tb = <<>> \/ tb[1] = "\n"

IsOpaque(line) == ~IsTripletLine(line)

\* the lines ls[from + 1..to] (0-based from, exclusive to) that are not
\* Location, Rotation or DrawScale3D lines
OpaqueLines(ls, from, to) == SelectSeq(SubSeq(ls, from + 1, to), IsOpaque)

IsEndActor(line) == startswith(line, EndActor)

\* 0-based index of the first line after the header that begins with
\* End Actor, Len(lines) if there is none
FirstEnd ==
    LET ends == {i \in (sindex + 1)..(Len(lines) - 1) : IsEndActor(lines[i + 1])}
    IN  IF ends = {} THEN Len(lines)
        ELSE CHOOSE i \in ends : \A j \in ends : i =< j

\* a line with the given key stands between the header and index stop
KeyBefore(key, stop) ==
    \E i \in (sindex + 1)..(stop - 1) : startswith(lines[i + 1], key)

\* number of occurrences of Begin Actor in the buffer
BeginCount ==
    Cardinality({i \in 0..Len(unrtext) : OccursAt(unrtext, BeginActor, i)})

\* parseActors has taken the slice of the occurrence at sindex
SliceTaken == origins # <<>> \/ pc = "raised"

(***************************************************************************)
(* parseActors                                                             *)
(***************************************************************************)
\* C1: parseActors makes at most as many turns of its loop as the buffer
\* has Begin Actor occurrences, because each turn moves the cursor past the
\* occurrence it found.
C1_TurnsBoundedByOccurrences ==
    Len(origins) + (IF pc = "raised" THEN 1 ELSE 0) =< BeginCount

\* C2: the result list never holds two entries built from the same
\* Begin Actor occurrence.
C2_OneEntryPerOccurrence ==
    \A i \in 1..Len(origins) : \A j \in 1..Len(origins) :
        i # j => origins[i] # origins[j]

\* C3: when no End Actor follows the found Begin Actor, the slice handed to
\* parseActor runs from that Begin Actor to the last character of the
\* buffer, inclusive.
C3_SliceRunsToBufferEnd ==
    (SliceTaken /\ find(unrtext, EndActor, sindex) = -1)
        => actorText = SubSeq(unrtext, sindex + 1, Len(unrtext))

\* C4: the result list holds only records, never None.
C4_NoNoneInResult == \A i \in 1..Len(objList) : objList[i] # None

(***************************************************************************)
(* parseActor                                                              *)
(***************************************************************************)
\* C5: no error escapes parseActor, whatever the shape of a Location,
\* Rotation or DrawScale3D line.
C5_NoErrorEscapes == pc # "raised"

\* C6: a header line carrying Class=Foo Name=Bar gives a record with
\* type_internal Foo and name Bar, also when Name=Bar ends the line.
C6_HeaderGivesIdentity ==
    (PastHeader /\ WellFormedHeader(HeaderLine, Foo, Bar))
        => /\ Record # None
           /\ Record.type_internal = Foo
           /\ Record.name = Bar

\* C7: a header line without identity makes parseActor return None without
\* raising, and every record it holds or returns has a non-empty
\* type_internal and name, both taken from the header line.
C7_NoPartialRecord ==
    /\ (PastHeader /\ ~HasIdentity(HeaderLine))
          => (pc = "returned" /\ result = None)
    /\ (PastHeader /\ Record # None)
          => /\ Record.type_internal # <<>>
             /\ Record.name # <<>>
             /\ OccursIn(HeaderLine,
                         <<"C", "l", "a", "s", "s", "=">> \o Record.type_internal \o <<" ", "N", "a", "m", "e", "=">>
                             \o Record.name)

\* a header without identity was rejected with None
C7_Witness ==
    /\ pc = "returned"
    /\ result = None
    /\ startswith(HeaderLine, BeginActor)
    /\ ~HasIdentity(HeaderLine)

\* C8 as stated: the payload of a returned record is exactly the lines of
\* the input, other than the header line and the Location, Rotation and
\* DrawScale3D lines, in order.
C8_AllOtherLinesInPayload ==
    ReturnedRecord
        => /\ PayloadShape(result.attrs.textblock)
           /\ PayloadLines(result.attrs.textblock)
                 = OpaqueLines(lines, 0, sindex)
                       \o OpaqueLines(lines, sindex + 1, Len(lines))

\* C8 amended: the payload of a returned record is exactly the lines after
\* the header line and, in unsafe mode, before the first line beginning
\* with End Actor, other than the Location, Rotation and DrawScale3D lines,
\* in order.
C8_WalkedLinesInPayload ==
    ReturnedRecord
        => /\ PayloadShape(result.attrs.textblock)
           /\ PayloadLines(result.attrs.textblock)
                 = OpaqueLines(lines, sindex + 1,
                               IF safe THEN Len(lines) ELSE FirstEnd)

\* an unsafe parse with text before the header, an End Actor line, and a
\* payload of at least one line
C8_Witness ==
    /\ ReturnedRecord
    /\ ~safe
    /\ sindex > 0
    /\ FirstEnd < Len(lines)
    /\ result.attrs.textblock # <<>>

\* C9: in unsafe mode the walk never passes the first End Actor line after
\* the header: the payload has only lines from before it, and position,
\* rotation and scale keep the constructor's value unless a line from before
\* it sets them.  In safe mode every End Actor line after the header is in
\* the payload.
C9_EndActorStopsUnsafeWalkOnly ==
    /\ (pc = "walk" /\ ~safe) => cursor =< FirstEnd
    /\ (ReturnedRecord /\ ~safe)
          => /\ Len(PayloadLines(result.attrs.textblock))
                   =< FirstEnd - sindex - 1
             /\ SelectSeq(PayloadLines(result.attrs.textblock), IsEndActor)
                   = <<>>
             /\ KeyBefore(LocationKey, FirstEnd)
                   \/ result.position = ObjectInfo(<<>>, <<>>, "").position
             /\ KeyBefore(RotationKey, FirstEnd)
                   \/ result.rotation = ObjectInfo(<<>>, <<>>, "").rotation
             /\ KeyBefore(DrawScale3DKey, FirstEnd)
                   \/ result.scale = ObjectInfo(<<>>, <<>>, "").scale
    /\ (ReturnedRecord /\ safe)
          => SelectSeq(PayloadLines(result.attrs.textblock), IsEndActor)
                = SelectSeq(SubSeq(lines, sindex + 2, Len(lines)), IsEndActor)

\* an unsafe parse that stopped at an End Actor line with a Location line
\* behind it
C9_Witness ==
    /\ ReturnedRecord
    /\ ~safe
    /\ FirstEnd + 1 < Len(lines)
    /\ startswith(lines[FirstEnd + 2], LocationKey)

\* C10: the extracted type_internal has no space and the extracted name has
\* no whitespace.
C10_IdentityTokensHaveNoSpace ==
    (PastHeader /\ Record # None)
        => /\ \A k \in 1..Len(Record.type_internal) :
                 Record.type_internal[k] # " "
           /\ \A k \in 1..Len(Record.name) : ~IsSpace(Record.name[k])
=============================================================================
